---- MODULE Spec2Model ----
(***************************************************************************)
(* netfuse: the inode store (src/inode.rs), the page cache entries        *)
(* (src/cache.rs) and the FUSE dispatcher NetFuse (src/lib.rs) over a      *)
(* NetworkFilesystem backend (src/nfs.rs).                                 *)
(*                                                                         *)
(* A path is a sequence of one-character strings ("/" is the separator),   *)
(* a path component is a sequence of characters, a byte buffer is a        *)
(* sequence of numbers.  Option values are <<>> (None) and <<x>> (Some x). *)
(***************************************************************************)
EXTENDS Integers, Sequences, FiniteSets, TLC

VARIABLES
    inode_map,   \* InodeStore.inode_map : ino -> Inode
    ino_trie,    \* InodeStore.ino_trie  : component sequence -> ino
    cache,       \* NetFuse.cache        : ino -> CacheEntry
    be,          \* the backend (NetFuse.nfs): component sequence -> node
    opens,       \* kernel side: open file handles per ino not yet released
    max_alloc,   \* history: the greatest ino allocated so far
    steps,       \* the number of requests handled since mount
    panicked     \* the process aborted (panic!/unwrap/expect/assert)

vars == <<inode_map, ino_trie, cache, be, opens, max_alloc, steps, panicked>>

----------------------------------------------------------------------------
(* Bounds *)

MaxSteps == 5      \* requests handled after mount
MaxIno == 3        \* inode numbers used by the model are 1..MaxIno
MaxLen == 2        \* a buffer never grows beyond MaxLen bytes
MaxHandles == 2    \* open handles the kernel keeps per inode

Names == { <<"a">>, <<"b">> }
MaxDepth == 2      \* components below the root in a path
MaxInserts == 3    \* inodes inserted into a store taken on its own

Inos == 1..MaxIno

\* the payloads the kernel writes (0 is the fill byte, the backend holds 1 and 2)
Datas == { <<>>, <<3>>, <<3, 4>> }

----------------------------------------------------------------------------
(* Generic helpers *)

None == <<>>
Some(x) == <<x>>

Put(f, k, v) == [x \in DOMAIN f \cup {k} |-> IF x = k THEN v ELSE f[x]]
Del(f, k) == [x \in DOMAIN f \ {k} |-> f[x]]

Ok(v) == [ok |-> TRUE, val |-> v, err |-> ""]
Err(e) == [ok |-> FALSE, val |-> <<>>, err |-> e]

Max(a, b) == IF a > b THEN a ELSE b
Min(a, b) == IF a < b THEN a ELSE b

----------------------------------------------------------------------------
(* Paths: std::path::Path as used by inode.rs and lib.rs *)

RECURSIVE SplitFrom(_, _, _)
SplitFrom(p, i, cur) ==
    IF i > Len(p) THEN (IF cur = <<>> THEN <<>> ELSE <<cur>>)
    ELSE IF p[i] = "/"
         THEN (IF cur = <<>> THEN <<>> ELSE <<cur>>) \o SplitFrom(p, i + 1, <<>>)
         ELSE SplitFrom(p, i + 1, Append(cur, p[i]))

\* path.iter(): the root component "/" if the path is absolute, then the
\* non-empty components between separators
path_to_sequence(p) ==
    (IF Len(p) > 0 /\ p[1] = "/" THEN << <<"/">> >> ELSE <<>>) \o SplitFrom(p, 1, <<>>)

\* PathBuf equality compares components
PathEq(p, q) == path_to_sequence(p) = path_to_sequence(q)

\* format!("{}/{}", parent.path, name)
format_child(parent_path, name) == parent_path \o <<"/">> \o name

RECURSIVE LastSlash(_, _)
LastSlash(p, i) == IF i = 0 THEN 0 ELSE IF p[i] = "/" THEN i ELSE LastSlash(p, i - 1)

\* path.rsplitn(2, "/").next().unwrap()
get_basename(p) == SubSeq(p, LastSlash(p, Len(p)) + 1, Len(p))

RootPath == <<"/">>

----------------------------------------------------------------------------
(* Inode store: src/inode.rs.  A store value is [inode_map, ino_trie];    *)
(* operations that may abort return a record with a panic flag.           *)

\* the fields of fuse::FileAttr that the program reads or writes after it
\* built the value (the timestamps, blocks, nlink, rdev and flags are set once
\* and never looked at)
FileAttr(ino, size, kind, perm, uid, gid) ==
    [ino |-> ino, size |-> size, kind |-> kind, perm |-> perm, uid |-> uid, gid |-> gid]

\* MountOptions: the uid and gid the filesystem is mounted with
MountUid == 0
MountGid == 0

\* the permission bits of the root inode
RootPerm == 360

\* `mode as u16`
as_u16(mode) == mode % 65536

\* Inode::new
Inode(path, attr) == [path |-> path, attr |-> attr, visited |-> FALSE]

Store(map, trie) == [inode_map |-> map, ino_trie |-> trie]

\* SequenceTrie::get
trie_get(trie, sequence) ==
    IF sequence \in DOMAIN trie THEN Some(trie[sequence]) ELSE None

IsPrefix(s, t) == Len(s) <= Len(t) /\ SubSeq(t, 1, Len(s)) = s

\* SequenceTrie::get_node: a node exists for the empty key and for every
\* prefix of a key that holds a value (remove prunes valueless leaves)
trie_has_node(trie, sequence) ==
    sequence = <<>> \/ \E k \in DOMAIN trie : IsPrefix(sequence, k)

\* node.children of the node at `sequence` that hold a value
trie_child_values(trie, sequence) ==
    { trie[k] : k \in { x \in DOMAIN trie :
                          Len(x) = Len(sequence) + 1 /\ IsPrefix(sequence, x) } }

\* InodeStore::get
get(s, ino) == IF ino \in DOMAIN s.inode_map THEN Some(s.inode_map[ino]) ELSE None

\* InodeStore::get_by_path
get_by_path(s, path) ==
    LET found == trie_get(s.ino_trie, path_to_sequence(path))
    IN IF found = None THEN None ELSE get(s, found[1])

\* child() that probes the trie with the parent's own sequence (the name is
\* not appended)
child_without_name(s, ino, name) ==
    IF get(s, ino) = None THEN None
    ELSE LET sequence == path_to_sequence(get(s, ino)[1].path)
             found == trie_get(s.ino_trie, sequence)
         IN IF found = None THEN None ELSE get(s, found[1])

\* InodeStore::child
child(s, ino, name) ==
    IF get(s, ino) = None THEN None
    ELSE LET sequence == Append(path_to_sequence(get(s, ino)[1].path), name)
             found == trie_get(s.ino_trie, sequence)
         IN IF found = None THEN None ELSE get(s, found[1])

\* InodeStore::children: [panic, val] where val is the set of child inodes
children(s, ino) ==
    IF get(s, ino) = None THEN [panic |-> FALSE, val |-> {}]
    ELSE LET sequence == path_to_sequence(get(s, ino)[1].path)
             inos == trie_child_values(s.ino_trie, sequence)
         IN IF ~trie_has_node(s.ino_trie, sequence) THEN [panic |-> TRUE, val |-> {}]
            ELSE IF \E c \in inos : get(s, c) = None THEN [panic |-> TRUE, val |-> {}]
            ELSE [panic |-> FALSE, val |-> { get(s, c)[1] : c \in inos }]

\* InodeStore::parent
parent(s, ino) ==
    IF ino = 1 THEN get(s, 1)
    ELSE IF get(s, ino) = None THEN None
    ELSE LET sequence == path_to_sequence(get(s, ino)[1].path)
             len == Len(sequence)
         IN IF len = 1 THEN get(s, 1)
            ELSE LET p_ino == trie_get(s.ino_trie, SubSeq(sequence, 1, len - 1))
                 IN IF p_ino = None THEN None ELSE get(s, p_ino[1])

\* insert() that leaves the trie alone when it already has a node for the
\* path (a node without a value, made for a descendant, included)
insert_skips_existing_node(s, inode) ==
    LET ino == inode.attr.ino
        sequence == path_to_sequence(inode.path)
        conflict == ino \in DOMAIN s.inode_map
                    /\ ~PathEq(s.inode_map[ino].path, inode.path)
        map1 == Put(s.inode_map, ino, inode)
    IN IF conflict
       THEN [panic |-> TRUE, inode_map |-> map1, ino_trie |-> s.ino_trie]
       ELSE [panic |-> FALSE, inode_map |-> map1,
             ino_trie |-> IF trie_has_node(s.ino_trie, sequence) THEN s.ino_trie
                          ELSE Put(s.ino_trie, sequence, ino)]

\* InodeStore::insert: the ino map is updated before the conflict check
insert(s, inode) ==
    LET ino == inode.attr.ino
        sequence == path_to_sequence(inode.path)
        conflict == ino \in DOMAIN s.inode_map
                    /\ ~PathEq(s.inode_map[ino].path, inode.path)
        map1 == Put(s.inode_map, ino, inode)
    IN IF conflict
       THEN [panic |-> TRUE, inode_map |-> map1, ino_trie |-> s.ino_trie]
       ELSE [panic |-> FALSE, inode_map |-> map1,
             ino_trie |-> Put(s.ino_trie, sequence, ino)]

\* remove() that takes the inode out of the ino map and leaves the trie
remove_from_map_only(s, ino) ==
    IF ino \notin DOMAIN s.inode_map
    THEN [panic |-> TRUE, inode_map |-> s.inode_map, ino_trie |-> s.ino_trie]
    ELSE [panic |-> FALSE, inode_map |-> Del(s.inode_map, ino), ino_trie |-> s.ino_trie]

\* InodeStore::remove
remove(s, ino) ==
    IF ino \notin DOMAIN s.inode_map
    THEN [panic |-> TRUE, inode_map |-> s.inode_map, ino_trie |-> s.ino_trie]
    ELSE LET sequence == path_to_sequence(s.inode_map[ino].path)
         IN [panic |-> FALSE, inode_map |-> Del(s.inode_map, ino),
             ino_trie |-> Del(s.ino_trie, sequence)]

\* InodeStore::new
InodeStore_new ==
    insert(Store(<<>>, <<>>),
           Inode(RootPath, FileAttr(1, 0, "Directory", RootPerm, MountUid, MountGid)))

\* inodes.len() as called by NetFuse::insert_metadata: the number of inodes
InodeStore_len(s) == Cardinality(DOMAIN s.inode_map)

\* NetFuse::insert_metadata: ino = inodes.len() + 1, then InodeStore::insert
insert_metadata(s, path, metadata) ==
    LET ino == InodeStore_len(s) + 1
        r == insert(s, Inode(path, FileAttr(ino, metadata.size, metadata.kind, metadata.perm,
                                            MountUid, MountGid)))
    IN [panic |-> r.panic, inode_map |-> r.inode_map, ino_trie |-> r.ino_trie, ino |-> ino]

Metadata(size, kind, perm) == [size |-> size, kind |-> kind, perm |-> perm]

----------------------------------------------------------------------------
(* Page cache entries: src/cache.rs *)

\* CacheEntry::new
CacheEntry_new == [data |-> <<>>, warm |-> FALSE, sync |-> FALSE, handles |-> 0]

\* Vec::resize(n, fill): truncates or extends to exactly n elements
resize(v, n, fill) ==
    IF n <= Len(v) THEN SubSeq(v, 1, n)
    ELSE v \o [i \in 1..(n - Len(v)) |-> fill]

\* CacheEntry::set
CacheEntry_set(e, data) == [e EXCEPT !.sync = FALSE, !.warm = TRUE, !.data = data]

\* write() that copies the data to the start of the buffer instead of to offset
CacheEntry_write_at_start(e, offset, data) ==
    LET end == offset + Len(data)
        resized == resize(e.data, end, 0)
    IN [e EXCEPT !.sync = FALSE, !.warm = TRUE,
                 !.data = [i \in 1..end |-> IF i <= Len(data) THEN data[i]
                                            ELSE resized[i]]]

\* CacheEntry::write
CacheEntry_write(e, offset, data) ==
    LET end == offset + Len(data)
        resized == resize(e.data, end, 0)
    IN [e EXCEPT !.sync = FALSE, !.warm = TRUE,
                 !.data = [i \in 1..end |-> IF i > offset THEN data[i - offset]
                                            ELSE resized[i]]]

\* CacheEntry.handles is a u32.  It is kept as its residue modulo 2^32 with the
\* representative nearest to 0, so -1 stands for 2^32 - 1: subtracting from 0
\* and adding to -1 are the two overflows.  An overflow panics in a build
\* with overflow checks and wraps in a build without them.

\* released() that leaves the count as it is
CacheEntry_released_keeps_count(e, wrap) ==
    IF e.handles = 0 /\ ~wrap THEN [panic |-> TRUE, entry |-> e]
    ELSE [panic |-> FALSE, entry |-> e]

\* CacheEntry::released
CacheEntry_released(e, wrap) ==
    IF e.handles = 0 /\ ~wrap THEN [panic |-> TRUE, entry |-> e]
    ELSE [panic |-> FALSE, entry |-> [e EXCEPT !.handles = e.handles - 1]]

\* CacheEntry::opened
CacheEntry_opened(e, wrap) ==
    IF e.handles = -1 /\ ~wrap THEN [panic |-> TRUE, entry |-> e]
    ELSE [panic |-> FALSE, entry |-> [e EXCEPT !.handles = e.handles + 1]]

----------------------------------------------------------------------------
(* Backend: an in-memory implementation of the NetworkFilesystem trait    *)
(* (src/nfs.rs).  `fail` injects a failure of the call.                   *)

NameSeq == << <<"a">>, <<"b">> >>

\* the permission bits the backend reports for its files and directories
BePerm == 420

BeDir == [kind |-> "Directory", data |-> <<>>]
BeFile(data) == [kind |-> "RegularFile", data |-> data]

be_parent_is_dir(b, key) ==
    LET up == SubSeq(key, 1, Len(key) - 1)
    IN Len(key) > 1 /\ up \in DOMAIN b /\ b[up].kind = "Directory"

be_entries(b, key) ==
    SelectSeq(NameSeq, LAMBDA n : Append(key, n) \in DOMAIN b)

\* NetworkFilesystem::lookup
be_lookup(b, path, fail) ==
    LET key == path_to_sequence(path)
    IN IF fail THEN Err("ENOSYS")
       ELSE IF key \notin DOMAIN b THEN Err("ENOENT")
       ELSE Ok(Metadata(Len(b[key].data), b[key].kind, BePerm))

\* NetworkFilesystem::read
be_read(b, path, fail) ==
    LET key == path_to_sequence(path)
    IN IF fail THEN Err("ENOSYS")
       ELSE IF key \notin DOMAIN b THEN Err("ENOENT")
       ELSE IF b[key].kind = "Directory" THEN Err("EISDIR")
       ELSE Ok(b[key].data)

\* NetworkFilesystem::write: [res, be]
be_write(b, path, data, fail) ==
    LET key == path_to_sequence(path)
    IN IF fail THEN [res |-> Err("ENOSYS"), be |-> b]
       ELSE IF key \in DOMAIN b /\ b[key].kind = "Directory"
            THEN [res |-> Err("EISDIR"), be |-> b]
       ELSE IF ~be_parent_is_dir(b, key) THEN [res |-> Err("ENOENT"), be |-> b]
       ELSE [res |-> Ok(<<>>), be |-> Put(b, key, BeFile(data))]

\* NetworkFilesystem::readdir: the items the iterator yields; with failAt = k > 0
\* the k-th item is an error and nothing follows it
be_readdir(b, path, failAt) ==
    LET key == path_to_sequence(path)
        names == be_entries(b, key)
        items == [i \in 1..Len(names) |->
                    LET k == Append(key, names[i])
                    IN Ok(<<names[i], Metadata(Len(b[k].data), b[k].kind, BePerm)>>)]
    IN IF key \notin DOMAIN b THEN << Err("ENOENT") >>
       ELSE IF b[key].kind # "Directory" THEN << Err("ENOTDIR") >>
       ELSE IF failAt = 0 \/ failAt > Len(items) + 1 THEN items
       ELSE Append(SubSeq(items, 1, failAt - 1), Err("ENOSYS"))

\* NetworkFilesystem::mkdir: [res, be]
be_mkdir(b, path, fail) ==
    LET key == path_to_sequence(path)
    IN IF fail THEN [res |-> Err("ENOSYS"), be |-> b]
       ELSE IF key \in DOMAIN b THEN [res |-> Err("EEXIST"), be |-> b]
       ELSE IF ~be_parent_is_dir(b, key) THEN [res |-> Err("ENOENT"), be |-> b]
       ELSE [res |-> Ok(<<>>), be |-> Put(b, key, BeDir)]

\* NetworkFilesystem::rmdir: [res, be]
be_rmdir(b, path, fail) ==
    LET key == path_to_sequence(path)
    IN IF fail THEN [res |-> Err("ENOSYS"), be |-> b]
       ELSE IF key \notin DOMAIN b THEN [res |-> Err("ENOENT"), be |-> b]
       ELSE IF b[key].kind # "Directory" THEN [res |-> Err("ENOTDIR"), be |-> b]
       ELSE IF be_entries(b, key) # <<>> THEN [res |-> Err("ENOTEMPTY"), be |-> b]
       ELSE [res |-> Ok(<<>>), be |-> Del(b, key)]

\* NetworkFilesystem::unlink: [res, be]
be_unlink(b, path, fail) ==
    LET key == path_to_sequence(path)
    IN IF fail THEN [res |-> Err("ENOSYS"), be |-> b]
       ELSE IF key \notin DOMAIN b THEN [res |-> Err("ENOENT"), be |-> b]
       ELSE IF b[key].kind = "Directory" THEN [res |-> Err("EISDIR"), be |-> b]
       ELSE [res |-> Ok(<<>>), be |-> Del(b, key)]

\* a backend call as observed by the backend
Call(fn, path, data) == [fn |-> fn, path |-> path_to_sequence(path), data |-> data]

----------------------------------------------------------------------------
(* Dispatcher: impl Filesystem for NetFuse, src/lib.rs.                   *)
(* A handler maps the current state and its arguments to an outcome: the  *)
(* new store, cache and backend, the reply, the backend calls it issued,  *)
(* the inos it allocated, and whether it aborted.                         *)

ReplyNone == [kind |-> "none", err |-> "", attr |-> <<>>, data |-> <<>>, n |-> 0,
              entries |-> {}]
ReplyError(e) == [ReplyNone EXCEPT !.kind = "error", !.err = e]
ReplyEntry(attr) == [ReplyNone EXCEPT !.kind = "entry", !.attr = <<attr>>]
ReplyAttr(attr) == [ReplyNone EXCEPT !.kind = "attr", !.attr = <<attr>>]
ReplyData(d) == [ReplyNone EXCEPT !.kind = "data", !.data = d]
ReplyWritten(n) == [ReplyNone EXCEPT !.kind = "written", !.n = n]
ReplyOk == [ReplyNone EXCEPT !.kind = "ok"]
ReplyOpened == [ReplyNone EXCEPT !.kind = "opened"]
ReplyDir(entries) == [ReplyNone EXCEPT !.kind = "ok", !.entries = entries]
ReplyPanic == [ReplyNone EXCEPT !.kind = "panic"]

Out(map, trie, c, b, reply, calls, allocs) ==
    [inode_map |-> map, ino_trie |-> trie, cache |-> c, be |-> b, reply |-> reply,
     calls |-> calls, allocs |-> allocs, panic |-> FALSE]

Abort(map, trie, c, b, calls, allocs) ==
    [inode_map |-> map, ino_trie |-> trie, cache |-> c, be |-> b, reply |-> ReplyPanic,
     calls |-> calls, allocs |-> allocs, panic |-> TRUE]

\* a reply that leaves the store, the cache and the backend as they are
Reply(st, reply, calls, allocs) ==
    Out(st.inode_map, st.ino_trie, st.cache, st.be, reply, calls, allocs)

\* an abort before anything was changed
AbortIn(st, calls, allocs) ==
    Abort(st.inode_map, st.ino_trie, st.cache, st.be, calls, allocs)

\* flush_cache_if_needed() that writes every warm entry, in sync or not
flush_cache_if_warm(s, c, b, ino, fail) ==
    IF ino \notin DOMAIN c
    THEN [panic |-> TRUE, res |-> Err(""), cache |-> c, be |-> b, calls |-> <<>>]
    ELSE IF c[ino].warm
    THEN IF get(s, ino) = None
         THEN [panic |-> TRUE, res |-> Err(""), cache |-> c, be |-> b, calls |-> <<>>]
         ELSE LET path == get(s, ino)[1].path
                  w == be_write(b, path, c[ino].data, fail)
                  calls == << Call("write", path, c[ino].data) >>
              IN IF ~w.res.ok
                 THEN [panic |-> FALSE, res |-> Err(w.res.err), cache |-> c, be |-> b,
                       calls |-> calls]
                 ELSE [panic |-> FALSE, res |-> Ok(TRUE),
                       cache |-> [c EXCEPT ![ino].sync = TRUE], be |-> w.be,
                       calls |-> calls]
    ELSE [panic |-> FALSE, res |-> Ok(FALSE), cache |-> c, be |-> b, calls |-> <<>>]

\* flush_cache_if_needed() that leaves sync as it is after a write that succeeded
flush_cache_keeps_dirty(s, c, b, ino, fail) ==
    IF ino \notin DOMAIN c
    THEN [panic |-> TRUE, res |-> Err(""), cache |-> c, be |-> b, calls |-> <<>>]
    ELSE IF c[ino].warm /\ ~c[ino].sync
    THEN IF get(s, ino) = None
         THEN [panic |-> TRUE, res |-> Err(""), cache |-> c, be |-> b, calls |-> <<>>]
         ELSE LET path == get(s, ino)[1].path
                  w == be_write(b, path, c[ino].data, fail)
                  calls == << Call("write", path, c[ino].data) >>
              IN IF ~w.res.ok
                 THEN [panic |-> FALSE, res |-> Err(w.res.err), cache |-> c, be |-> b,
                       calls |-> calls]
                 ELSE [panic |-> FALSE, res |-> Ok(TRUE), cache |-> c, be |-> w.be,
                       calls |-> calls]
    ELSE [panic |-> FALSE, res |-> Ok(FALSE), cache |-> c, be |-> b, calls |-> <<>>]

\* NetFuse::flush_cache_if_needed: [panic, res, cache, be, calls]
flush_cache_if_needed(s, c, b, ino, fail) ==
    IF ino \notin DOMAIN c
    THEN [panic |-> TRUE, res |-> Err(""), cache |-> c, be |-> b, calls |-> <<>>]
    ELSE IF c[ino].warm /\ ~c[ino].sync
    THEN IF get(s, ino) = None
         THEN [panic |-> TRUE, res |-> Err(""), cache |-> c, be |-> b, calls |-> <<>>]
         ELSE LET path == get(s, ino)[1].path
                  w == be_write(b, path, c[ino].data, fail)
                  calls == << Call("write", path, c[ino].data) >>
              IN IF ~w.res.ok
                 THEN [panic |-> FALSE, res |-> Err(w.res.err), cache |-> c, be |-> b,
                       calls |-> calls]
                 ELSE [panic |-> FALSE, res |-> Ok(TRUE),
                       cache |-> [c EXCEPT ![ino].sync = TRUE], be |-> w.be,
                       calls |-> calls]
    ELSE [panic |-> FALSE, res |-> Ok(FALSE), cache |-> c, be |-> b, calls |-> <<>>]

\* read_to_cache_if_needed() that leaves the entry cold when the backend
\* returned no bytes
read_to_cache_cold_when_empty(s, c, b, ino, fail) ==
    IF ino \notin DOMAIN c
    THEN [panic |-> TRUE, res |-> Err(""), cache |-> c, calls |-> <<>>]
    ELSE IF c[ino].warm
    THEN [panic |-> FALSE, res |-> Ok(FALSE), cache |-> c, calls |-> <<>>]
    ELSE IF get(s, ino) = None
    THEN [panic |-> TRUE, res |-> Err(""), cache |-> c, calls |-> <<>>]
    ELSE LET path == get(s, ino)[1].path
             r == be_read(b, path, fail)
             calls == << Call("read", path, <<>>) >>
         IN IF ~r.ok
            THEN [panic |-> FALSE, res |-> Err(r.err), cache |-> c, calls |-> calls]
            ELSE [panic |-> FALSE, res |-> Ok(TRUE),
                  cache |-> [c EXCEPT ![ino] =
                                [CacheEntry_set(c[ino], r.val) EXCEPT !.sync = TRUE,
                                                                      !.warm = r.val # <<>>]],
                  calls |-> calls]

\* NetFuse::read_to_cache_if_needed: [panic, res, cache, calls]
read_to_cache_if_needed(s, c, b, ino, fail) ==
    IF ino \notin DOMAIN c
    THEN [panic |-> TRUE, res |-> Err(""), cache |-> c, calls |-> <<>>]
    ELSE IF c[ino].warm
    THEN [panic |-> FALSE, res |-> Ok(FALSE), cache |-> c, calls |-> <<>>]
    ELSE IF get(s, ino) = None
    THEN [panic |-> TRUE, res |-> Err(""), cache |-> c, calls |-> <<>>]
    ELSE LET path == get(s, ino)[1].path
             r == be_read(b, path, fail)
             calls == << Call("read", path, <<>>) >>
         IN IF ~r.ok
            THEN [panic |-> FALSE, res |-> Err(r.err), cache |-> c, calls |-> calls]
            ELSE [panic |-> FALSE, res |-> Ok(TRUE),
                  cache |-> [c EXCEPT ![ino] =
                                [CacheEntry_set(c[ino], r.val) EXCEPT !.sync = TRUE]],
                  calls |-> calls]

\* Filesystem::lookup
lookup(st, par, name, fail) ==
    LET found == child(st, par, name)
    IN IF found # None
       THEN Reply(st, ReplyEntry(found[1].attr), <<>>, <<>>)
       ELSE IF get(st, par) = None
       THEN AbortIn(st, <<>>, <<>>)
       ELSE LET parent_inode == get(st, par)[1]
            IN IF parent_inode.visited
               THEN Reply(st, ReplyError("ENOENT"), <<>>, <<>>)
               ELSE LET child_path == format_child(parent_inode.path, name)
                        r == be_lookup(st.be, child_path, fail)
                        calls == << Call("lookup", child_path, <<>>) >>
                    IN IF r.ok
                       THEN LET m == insert_metadata(st, child_path, r.val)
                            IN IF m.panic
                               THEN Abort(m.inode_map, m.ino_trie, st.cache, st.be, calls,
                                          <<m.ino>>)
                               ELSE Out(m.inode_map, m.ino_trie, st.cache, st.be,
                                        ReplyEntry(m.inode_map[m.ino].attr), calls,
                                        <<m.ino>>)
                       ELSE Reply(st, ReplyError("ENOENT"),
                                calls, <<>>)

\* Filesystem::getattr
getattr(st, ino) ==
    IF get(st, ino) # None
    THEN Reply(st, ReplyAttr(get(st, ino)[1].attr), <<>>, <<>>)
    ELSE Reply(st, ReplyError("ENOENT"), <<>>, <<>>)

\* read() whose tail case also takes offset = len (>= for >)
read_tail_inclusive(st, ino, offset, size, fail) ==
    LET w == read_to_cache_if_needed(st, st.cache, st.be, ino, fail)
    IN IF w.panic THEN AbortIn(st, w.calls, <<>>)
       ELSE IF ~w.res.ok
       THEN Out(st.inode_map, st.ino_trie, w.cache, st.be, ReplyError(w.res.err), w.calls, <<>>)
       ELSE LET buffer == w.cache[ino].data
                end_offset == offset + size
                reply == IF Len(buffer) > offset + size
                         THEN ReplyData(SubSeq(buffer, offset + 1, end_offset))
                         ELSE IF Len(buffer) >= offset
                         THEN ReplyData(SubSeq(buffer, offset + 1, Len(buffer)))
                         ELSE ReplyError("ENOENT")
            IN Out(st.inode_map, st.ino_trie, w.cache, st.be, reply, w.calls, <<>>)

\* Filesystem::read
read(st, ino, offset, size, fail) ==
    LET w == read_to_cache_if_needed(st, st.cache, st.be, ino, fail)
    IN IF w.panic THEN AbortIn(st, w.calls, <<>>)
       ELSE IF ~w.res.ok
       THEN Out(st.inode_map, st.ino_trie, w.cache, st.be, ReplyError(w.res.err), w.calls, <<>>)
       ELSE LET buffer == w.cache[ino].data
                end_offset == offset + size
                reply == IF Len(buffer) > offset + size
                         THEN ReplyData(SubSeq(buffer, offset + 1, end_offset))
                         ELSE IF Len(buffer) > offset
                         THEN ReplyData(SubSeq(buffer, offset + 1, Len(buffer)))
                         ELSE ReplyError("ENOENT")
            IN Out(st.inode_map, st.ino_trie, w.cache, st.be, reply, w.calls, <<>>)

DirEntry(ino, kind, name) == [ino |-> ino, kind |-> kind, name |-> name]

\* NetFuse::cache_readdir: [panic, val] where val is the set of (name, attr)
cache_readdir(s, ino) ==
    LET c == children(s, ino)
    IN [panic |-> c.panic,
        val |-> { DirEntry(i.attr.ino, i.attr.kind, get_basename(i.path)) : i \in c.val }]

\* the loop of readdir over the items of the backend iterator
RECURSIVE readdir_loop(_, _, _, _, _, _)
readdir_loop(s, parent_path, items, i, entries, allocs) ==
    IF i > Len(items)
    THEN [panic |-> FALSE, err |-> "", s |-> s, entries |-> entries, allocs |-> allocs]
    ELSE IF ~items[i].ok
    THEN [panic |-> FALSE, err |-> items[i].err, s |-> s, entries |-> entries,
          allocs |-> allocs]
    ELSE LET filename == items[i].val[1]
             meta == items[i].val[2]
             child_path == format_child(parent_path, filename)
             m == insert_metadata(s, child_path, meta)
             s1 == Store(m.inode_map, m.ino_trie)
         IN IF m.panic
            THEN [panic |-> TRUE, err |-> "", s |-> s1, entries |-> entries,
                  allocs |-> Append(allocs, m.ino)]
            ELSE readdir_loop(s1, parent_path, items, i + 1,
                              entries \cup { DirEntry(m.ino, m.inode_map[m.ino].attr.kind,
                                                      filename) },
                              Append(allocs, m.ino))

\* Filesystem::readdir
readdir(st, ino, offset, failAt) ==
    IF offset > 0
    THEN Reply(st, ReplyDir({}), <<>>, <<>>)
    ELSE IF ino # 1 /\ parent(st, ino) = None
    THEN AbortIn(st, <<>>, <<>>)
    ELSE LET parent_ino == IF ino = 1 THEN 1 ELSE parent(st, ino)[1].attr.ino
             dots == { DirEntry(ino, "Directory", <<".">>),
                       DirEntry(parent_ino, "Directory", <<".", ".">>) }
             dir_visited == IF get(st, ino) = None THEN FALSE
                            ELSE get(st, ino)[1].visited
         IN IF dir_visited
            THEN LET c == cache_readdir(st, ino)
                 IN IF c.panic THEN AbortIn(st, <<>>, <<>>)
                    ELSE Reply(st, ReplyDir(dots \cup c.val),
                             <<>>, <<>>)
            ELSE IF get(st, ino) = None
            THEN AbortIn(st, <<>>, <<>>)
            ELSE LET parent_path == get(st, ino)[1].path
                     items == be_readdir(st.be, parent_path, failAt)
                     calls == << Call("readdir", parent_path, <<>>) >>
                     l == readdir_loop(st, parent_path, items, 1, dots, <<>>)
                 IN IF l.panic
                    THEN Abort(l.s.inode_map, l.s.ino_trie, st.cache, st.be, calls, l.allocs)
                    ELSE IF l.err # ""
                    THEN Out(l.s.inode_map, l.s.ino_trie, st.cache, st.be, ReplyError(l.err),
                             calls, l.allocs)
                    ELSE Out(l.s.inode_map, l.s.ino_trie, st.cache, st.be, ReplyDir(l.entries),
                             calls, l.allocs)

\* the mode the kernel passes to mknod and mkdir
CreateMode == 420

\* Filesystem::mknod
mknod(st, par, name) ==
    IF get(st, par) = None THEN AbortIn(st, <<>>, <<>>)
    ELSE LET path == format_child(get(st, par)[1].path, name)
             m == insert_metadata(st, path, Metadata(0, "RegularFile", as_u16(CreateMode)))
         IN IF m.panic
            THEN Abort(m.inode_map, m.ino_trie, st.cache, st.be, <<>>, <<m.ino>>)
            ELSE LET attr == m.inode_map[m.ino].attr
                     entry == IF attr.ino \in DOMAIN st.cache THEN st.cache[attr.ino]
                              ELSE CacheEntry_new
                 IN Out(m.inode_map, m.ino_trie,
                        Put(st.cache, attr.ino, [entry EXCEPT !.warm = TRUE]), st.be,
                        ReplyEntry(attr), <<>>, <<m.ino>>)

\* Filesystem::mkdir
mkdir(st, par, name, fail) ==
    IF get(st, par) = None THEN AbortIn(st, <<>>, <<>>)
    ELSE LET path == format_child(get(st, par)[1].path, name)
             r == be_mkdir(st.be, path, fail)
             calls == << Call("mkdir", path, <<>>) >>
         IN IF r.res.ok
            THEN LET m == insert_metadata(st, path, Metadata(0, "Directory", as_u16(CreateMode)))
                 IN IF m.panic
                    THEN Abort(m.inode_map, m.ino_trie, st.cache, r.be, calls, <<m.ino>>)
                    ELSE Out(m.inode_map, m.ino_trie, st.cache, r.be,
                             ReplyEntry(m.inode_map[m.ino].attr), calls, <<m.ino>>)
            ELSE Reply(st, ReplyError(r.res.err), calls, <<>>)

\* Filesystem::open
open(st, ino, wrap) ==
    LET entry == IF ino \in DOMAIN st.cache THEN st.cache[ino] ELSE CacheEntry_new
        o == CacheEntry_opened(entry, wrap)
    IN IF o.panic THEN Abort(st.inode_map, st.ino_trie, Put(st.cache, ino, entry), st.be, <<>>, <<>>)
       ELSE Out(st.inode_map, st.ino_trie, Put(st.cache, ino, o.entry), st.be, ReplyOpened, <<>>, <<>>)

\* release() that purges an entry only when it is in sync
release_purge_if_sync(st, ino, fail, wrap) ==
    IF ino \notin DOMAIN st.cache THEN AbortIn(st, <<>>, <<>>)
    ELSE LET r == CacheEntry_released(st.cache[ino], wrap)
             c1 == Put(st.cache, ino, r.entry)
             handles == r.entry.handles
             f == IF handles = 0 THEN flush_cache_if_needed(st, c1, st.be, ino, fail)
                  ELSE [panic |-> FALSE, res |-> Ok(FALSE), cache |-> c1, be |-> st.be,
                        calls |-> <<>>]
         IN IF r.panic THEN AbortIn(st, <<>>, <<>>)
            ELSE IF f.panic THEN Abort(st.inode_map, st.ino_trie, c1, st.be, f.calls, <<>>)
            ELSE LET e == f.cache[ino]
                     c2 == IF handles = 0 /\ e.sync THEN Del(f.cache, ino)
                           ELSE f.cache
                 IN Out(st.inode_map, st.ino_trie, c2, f.be, ReplyOk, f.calls, <<>>)

\* release() that purges the entry whenever handles reaches 0
release_purges_at_zero(st, ino, fail, wrap) ==
    IF ino \notin DOMAIN st.cache THEN AbortIn(st, <<>>, <<>>)
    ELSE LET r == CacheEntry_released(st.cache[ino], wrap)
             c1 == Put(st.cache, ino, r.entry)
             handles == r.entry.handles
             f == IF handles = 0 THEN flush_cache_if_needed(st, c1, st.be, ino, fail)
                  ELSE [panic |-> FALSE, res |-> Ok(FALSE), cache |-> c1, be |-> st.be,
                        calls |-> <<>>]
         IN IF r.panic THEN AbortIn(st, <<>>, <<>>)
            ELSE IF f.panic THEN Abort(st.inode_map, st.ino_trie, c1, st.be, f.calls, <<>>)
            ELSE LET c2 == IF handles = 0 THEN Del(f.cache, ino) ELSE f.cache
                 IN Out(st.inode_map, st.ino_trie, c2, f.be, ReplyOk, f.calls, <<>>)

\* release() that never purges the entry
release_keeps_entry(st, ino, fail, wrap) ==
    IF ino \notin DOMAIN st.cache THEN AbortIn(st, <<>>, <<>>)
    ELSE LET r == CacheEntry_released(st.cache[ino], wrap)
             c1 == Put(st.cache, ino, r.entry)
             handles == r.entry.handles
             f == IF handles = 0 THEN flush_cache_if_needed(st, c1, st.be, ino, fail)
                  ELSE [panic |-> FALSE, res |-> Ok(FALSE), cache |-> c1, be |-> st.be,
                        calls |-> <<>>]
         IN IF r.panic THEN AbortIn(st, <<>>, <<>>)
            ELSE IF f.panic THEN Abort(st.inode_map, st.ino_trie, c1, st.be, f.calls, <<>>)
            ELSE Out(st.inode_map, st.ino_trie, f.cache, f.be, ReplyOk, f.calls, <<>>)

\* Filesystem::release
release(st, ino, fail, wrap) ==
    IF ino \notin DOMAIN st.cache THEN AbortIn(st, <<>>, <<>>)
    ELSE LET r == CacheEntry_released(st.cache[ino], wrap)
             c1 == Put(st.cache, ino, r.entry)
             handles == r.entry.handles
             f == IF handles = 0 THEN flush_cache_if_needed(st, c1, st.be, ino, fail)
                  ELSE [panic |-> FALSE, res |-> Ok(FALSE), cache |-> c1, be |-> st.be,
                        calls |-> <<>>]
         IN IF r.panic THEN AbortIn(st, <<>>, <<>>)
            ELSE IF f.panic THEN Abort(st.inode_map, st.ino_trie, c1, st.be, f.calls, <<>>)
            ELSE LET e == f.cache[ino]
                     c2 == IF handles = 0 /\ (e.sync \/ ~e.warm) THEN Del(f.cache, ino)
                           ELSE f.cache
                 IN Out(st.inode_map, st.ino_trie, c2, f.be, ReplyOk, f.calls, <<>>)

\* fsync() that replies the backend's errno instead of EIO
fsync_replies_errno(st, ino, fail) ==
    LET f == flush_cache_if_needed(st, st.cache, st.be, ino, fail)
    IN IF f.panic THEN AbortIn(st, f.calls, <<>>)
       ELSE IF f.res.ok THEN Out(st.inode_map, st.ino_trie, f.cache, f.be, ReplyOk, f.calls, <<>>)
       ELSE Out(st.inode_map, st.ino_trie, f.cache, f.be, ReplyError(f.res.err), f.calls, <<>>)

\* Filesystem::fsync
fsync(st, ino, fail) ==
    LET f == flush_cache_if_needed(st, st.cache, st.be, ino, fail)
    IN IF f.panic THEN AbortIn(st, f.calls, <<>>)
       ELSE IF f.res.ok THEN Out(st.inode_map, st.ino_trie, f.cache, f.be, ReplyOk, f.calls, <<>>)
       ELSE Out(st.inode_map, st.ino_trie, f.cache, f.be, ReplyError("EIO"), f.calls, <<>>)

\* write() that reads a cold entry in from the backend also when the write
\* replaces the whole file
write_always_reads(st, ino, offset, data, fail) ==
    IF get(st, ino) = None THEN AbortIn(st, <<>>, <<>>)
    ELSE LET size == get(st, ino)[1].attr.size
             is_replace == FALSE
             w == IF is_replace
                  THEN [panic |-> FALSE, res |-> Ok(FALSE), cache |-> st.cache, calls |-> <<>>]
                  ELSE read_to_cache_if_needed(st, st.cache, st.be, ino, fail)
         IN IF w.panic THEN AbortIn(st, w.calls, <<>>)
            ELSE IF ~w.res.ok
            THEN Out(st.inode_map, st.ino_trie, w.cache, st.be, ReplyError(w.res.err), w.calls, <<>>)
            ELSE IF ino \notin DOMAIN w.cache
            THEN Out(st.inode_map, st.ino_trie, w.cache, st.be, ReplyError("ENOENT"), w.calls, <<>>)
            ELSE LET end == Len(data) + offset
                     e0 == w.cache[ino]
                     e1 == IF end > size THEN [e0 EXCEPT !.data = resize(e0.data, end, 0)]
                           ELSE e0
                     e2 == CacheEntry_write(e1, offset, data)
                     new_size == Len(e2.data)
                 IN Out([st.inode_map EXCEPT ![ino].attr.size = new_size], st.ino_trie,
                        Put(w.cache, ino, e2), st.be, ReplyWritten(Len(data)), w.calls, <<>>)

\* write() that leaves the inode's attr.size as it was
write_keeps_size(st, ino, offset, data, fail) ==
    IF get(st, ino) = None THEN AbortIn(st, <<>>, <<>>)
    ELSE LET size == get(st, ino)[1].attr.size
             is_replace == offset = 0 /\ size < Len(data)
             w == IF is_replace
                  THEN [panic |-> FALSE, res |-> Ok(FALSE), cache |-> st.cache, calls |-> <<>>]
                  ELSE read_to_cache_if_needed(st, st.cache, st.be, ino, fail)
         IN IF w.panic THEN AbortIn(st, w.calls, <<>>)
            ELSE IF ~w.res.ok
            THEN Out(st.inode_map, st.ino_trie, w.cache, st.be, ReplyError(w.res.err), w.calls, <<>>)
            ELSE IF ino \notin DOMAIN w.cache
            THEN Out(st.inode_map, st.ino_trie, w.cache, st.be, ReplyError("ENOENT"), w.calls, <<>>)
            ELSE LET end == Len(data) + offset
                     e0 == w.cache[ino]
                     e1 == IF end > size THEN [e0 EXCEPT !.data = resize(e0.data, end, 0)]
                           ELSE e0
                     e2 == CacheEntry_write(e1, offset, data)
                     new_size == Len(e2.data)
                 IN Out(st.inode_map, st.ino_trie,
                        Put(w.cache, ino, e2), st.be, ReplyWritten(Len(data)), w.calls, <<>>)

\* Filesystem::write
write(st, ino, offset, data, fail) ==
    IF get(st, ino) = None THEN AbortIn(st, <<>>, <<>>)
    ELSE LET size == get(st, ino)[1].attr.size
             is_replace == offset = 0 /\ size < Len(data)
             w == IF is_replace
                  THEN [panic |-> FALSE, res |-> Ok(FALSE), cache |-> st.cache, calls |-> <<>>]
                  ELSE read_to_cache_if_needed(st, st.cache, st.be, ino, fail)
         IN IF w.panic THEN AbortIn(st, w.calls, <<>>)
            ELSE IF ~w.res.ok
            THEN Out(st.inode_map, st.ino_trie, w.cache, st.be, ReplyError(w.res.err), w.calls, <<>>)
            ELSE IF ino \notin DOMAIN w.cache
            THEN Out(st.inode_map, st.ino_trie, w.cache, st.be, ReplyError("ENOENT"), w.calls, <<>>)
            ELSE LET end == Len(data) + offset
                     e0 == w.cache[ino]
                     e1 == IF end > size THEN [e0 EXCEPT !.data = resize(e0.data, end, 0)]
                           ELSE e0
                     e2 == CacheEntry_write(e1, offset, data)
                     new_size == Len(e2.data)
                 IN Out([st.inode_map EXCEPT ![ino].attr.size = new_size], st.ino_trie,
                        Put(w.cache, ino, e2), st.be, ReplyWritten(Len(data)), w.calls, <<>>)

\* the mode, uid and gid arguments of the setattr requests the kernel sends:
\* absent or present.  fuse::mount is called without allow_other, so the
\* requests come from the mounting user, who can chmod a file but can chown
\* it only to the owner and group it has.
Modes == { None, Some(493) }
Uids == { None, Some(MountUid) }
Gids == { None, Some(MountGid) }

\* the uid and gid arguments setattr() itself accepts
AnyUids == { None, Some(MountUid), Some(1000) }
AnyGids == { None, Some(MountGid), Some(1000) }

\* Filesystem::setattr (mode, uid, gid, size: None or Some(value))
setattr(st, ino, mode, uid, gid, size) ==
    IF get(st, ino) = None
    THEN Reply(st, ReplyError("ENOENT"), <<>>, <<>>)
    ELSE LET a0 == get(st, ino)[1].attr
             a1 == IF size # None THEN [a0 EXCEPT !.size = size[1]] ELSE a0
             a2 == IF uid # None THEN [a1 EXCEPT !.uid = uid[1]] ELSE a1
             a3 == IF gid # None THEN [a2 EXCEPT !.gid = gid[1]] ELSE a2
             map1 == [st.inode_map EXCEPT ![ino].attr = a3]
         IN Out(map1, st.ino_trie, st.cache, st.be, ReplyAttr(map1[ino].attr), <<>>, <<>>)

\* Filesystem::rmdir
rmdir(st, par, name, fail) ==
    LET found == child(st, par, name)
        ino_opt == IF found = None THEN None ELSE Some(found[1].attr.ino)
    IN IF get(st, par) = None THEN AbortIn(st, <<>>, <<>>)
       ELSE LET path == format_child(get(st, par)[1].path, name)
                r == be_rmdir(st.be, path, fail)
                calls == << Call("rmdir", path, <<>>) >>
            IN IF r.res.ok
               THEN IF ino_opt = None
                    THEN Out(st.inode_map, st.ino_trie, st.cache, r.be, ReplyOk, calls, <<>>)
                    ELSE LET d == remove(st, ino_opt[1])
                         IN IF d.panic
                            THEN Abort(d.inode_map, d.ino_trie, st.cache, r.be, calls, <<>>)
                            ELSE Out(d.inode_map, d.ino_trie, Del(st.cache, ino_opt[1]),
                                     r.be, ReplyOk, calls, <<>>)
               ELSE Reply(st, ReplyError("EIO"), calls, <<>>)

\* Filesystem::unlink
unlink(st, par, name, fail) ==
    LET found == child(st, par, name)
        ino_opt == IF found = None THEN None ELSE Some(found[1].attr.ino)
    IN IF get(st, par) = None THEN AbortIn(st, <<>>, <<>>)
       ELSE LET path == format_child(get(st, par)[1].path, name)
                r == be_unlink(st.be, path, fail)
                calls == << Call("unlink", path, <<>>) >>
            IN IF r.res.ok
               THEN IF ino_opt = None
                    THEN Out(st.inode_map, st.ino_trie, st.cache, r.be, ReplyOk, calls, <<>>)
                    ELSE LET d == remove(st, ino_opt[1])
                         IN IF d.panic
                            THEN Abort(d.inode_map, d.ino_trie, st.cache, r.be, calls, <<>>)
                            ELSE Out(d.inode_map, d.ino_trie, Del(st.cache, ino_opt[1]),
                                     r.be, ReplyOk, calls, <<>>)
               ELSE Reply(st, ReplyError("EIO"), calls, <<>>)

----------------------------------------------------------------------------
(* The state machine: the kernel sends one request at a time               *)

\* the dispatcher's state as a handler sees it
St == [inode_map |-> inode_map, ino_trie |-> ino_trie, cache |-> cache, be |-> be]

\* the backend at mount time
BeInit ==
    Put(Put(Put(<<>>, << <<"/">> >>, BeDir),
            << <<"/">>, <<"a">> >>, BeDir),
        << <<"/">>, <<"b">> >>, BeFile(<<1, 2>>))

\* a backend whose root holds one file, /b, which is empty
BeInitEmptyFile ==
    Put(Put(<<>>, << <<"/">> >>, BeDir),
        << <<"/">>, <<"b">> >>, BeFile(<<>>))

\* the backends the filesystem is mounted over
BeInits == { BeInit, BeInitEmptyFile }

\* mount(): InodeStore::new and an empty cache
Init ==
    /\ inode_map = InodeStore_new.inode_map
    /\ ino_trie = InodeStore_new.ino_trie
    /\ cache = <<>>
    /\ be \in BeInits
    /\ opens = [i \in Inos |-> 0]
    /\ max_alloc = 1
    /\ steps = 0
    /\ panicked = FALSE

RECURSIVE SeqMax(_, _)
SeqMax(q, m) == IF q = <<>> THEN m ELSE SeqMax(Tail(q), Max(Head(q), m))

\* one request: the handler's outcome becomes the next state
Commit(o, opens1) ==
    /\ ~panicked
    /\ steps < MaxSteps
    /\ steps' = steps + 1
    /\ \A k \in 1..Len(o.allocs) : o.allocs[k] <= MaxIno
    /\ inode_map' = o.inode_map
    /\ ino_trie' = o.ino_trie
    /\ cache' = o.cache
    /\ be' = o.be
    /\ opens' = IF o.panic THEN opens ELSE opens1
    /\ max_alloc' = SeqMax(o.allocs, max_alloc)
    /\ panicked' = o.panic

IsDir(ino) == ino \in DOMAIN inode_map /\ inode_map[ino].attr.kind = "Directory"
IsFile(ino) == ino \in DOMAIN inode_map /\ inode_map[ino].attr.kind = "RegularFile"
Depth(ino) == Len(path_to_sequence(inode_map[ino].path)) - 1

Lookup ==
    \E par \in Inos, name \in Names, fail \in BOOLEAN :
        /\ IsDir(par)
        /\ Commit(lookup(St, par, name, fail), opens)

Getattr ==
    \E ino \in Inos :
        Commit(getattr(St, ino), opens)

Read ==
    \E ino \in Inos, offset \in 0..MaxLen, size \in 0..MaxLen, fail \in BOOLEAN :
        /\ opens[ino] > 0
        /\ Commit(read(St, ino, offset, size, fail), opens)

Readdir ==
    \E ino \in Inos, offset \in 0..1, failAt \in 0..(Cardinality(Names) + 1) :
        /\ IsDir(ino)
        /\ Commit(readdir(St, ino, offset, failAt), opens)

Mknod ==
    \E par \in Inos, name \in Names :
        /\ IsDir(par) /\ Depth(par) < MaxDepth
        /\ child(St, par, name) = None
        /\ Commit(mknod(St, par, name), opens)

Mkdir ==
    \E par \in Inos, name \in Names, fail \in BOOLEAN :
        /\ IsDir(par) /\ Depth(par) < MaxDepth
        /\ child(St, par, name) = None
        /\ Commit(mkdir(St, par, name, fail), opens)

Open ==
    \E ino \in Inos, wrap \in BOOLEAN :
        /\ IsFile(ino) /\ opens[ino] < MaxHandles
        /\ Commit(open(St, ino, wrap), [opens EXCEPT ![ino] = @ + 1])

Release ==
    \E ino \in Inos, fail \in BOOLEAN, wrap \in BOOLEAN :
        /\ opens[ino] > 0
        /\ Commit(release(St, ino, fail, wrap), [opens EXCEPT ![ino] = @ - 1])

Fsync ==
    \E ino \in Inos, fail \in BOOLEAN :
        /\ opens[ino] > 0
        /\ Commit(fsync(St, ino, fail), opens)

Write ==
    \E ino \in Inos, data \in Datas, fail \in BOOLEAN :
        \E offset \in 0..Max(0, MaxLen - Len(data)) :
            /\ opens[ino] > 0
            /\ Commit(write(St, ino, offset, data, fail), opens)

\* a size is sent only for a regular file: truncating a directory fails in the
\* kernel before it reaches the filesystem
\* the setattr requests the kernel sends: one system call changes one group
\* of fields (chmod the mode, chown the uid and the gid, truncate the size)
SetattrRequests ==
    { [mode |-> m, uid |-> None, gid |-> None, size |-> None] : m \in Modes }
    \cup { [mode |-> None, uid |-> u, gid |-> g, size |-> None] : u \in Uids, g \in Gids }
    \cup { [mode |-> None, uid |-> None, gid |-> None, size |-> Some(n)] : n \in 0..MaxLen }

Setattr ==
    \E ino \in Inos, req \in SetattrRequests :
        /\ ino \in DOMAIN inode_map
        /\ req.size # None => IsFile(ino)
        /\ Commit(setattr(St, ino, req.mode, req.uid, req.gid, req.size), opens)

Rmdir ==
    \E par \in Inos, name \in Names, fail \in BOOLEAN :
        /\ IsDir(par)
        /\ Commit(rmdir(St, par, name, fail), opens)

Unlink ==
    \E par \in Inos, name \in Names, fail \in BOOLEAN :
        /\ IsDir(par)
        /\ Commit(unlink(St, par, name, fail), opens)

Next ==
    \/ Lookup \/ Getattr \/ Read \/ Readdir \/ Mknod \/ Mkdir \/ Open \/ Release
    \/ Fsync \/ Write \/ Setattr \/ Rmdir \/ Unlink

Spec == Init /\ [][Next]_vars

----------------------------------------------------------------------------
(* The inode store on its own: a fresh store and calls of InodeStore::insert *)
(* with distinct inos and distinct paths, in any order.                      *)

\* the inos and the paths of the inodes inserted: /a, /a/b, /a/b/a and
\* siblings of them
StoreInos == 2..(MaxInserts + 1)
StorePaths ==
    LET a == format_child(<<>>, <<"a">>)
        b == format_child(<<>>, <<"b">>)
        ab == format_child(a, <<"b">>)
    IN { a, b, ab, format_child(a, <<"a">>), format_child(b, <<"a">>),
         format_child(ab, <<"a">>) }

\* the attrs an inode is inserted with: a directory's or a file's
StoreAttrs(ino) ==
    { FileAttr(ino, 0, "Directory", RootPerm, MountUid, MountGid),
      FileAttr(ino, MaxLen, "RegularFile", BePerm, MountUid, MountGid) }

\* the inodes that can be inserted into store s: ino and path are not in use
FreshInodes(s) ==
    { Inode(path, attr) :
        path \in { q \in StorePaths : path_to_sequence(q) \notin DOMAIN s.ino_trie },
        attr \in UNION { StoreAttrs(ino) : ino \in StoreInos \ DOMAIN s.inode_map } }

\* InodeStore::new
StoreInit ==
    /\ inode_map = InodeStore_new.inode_map
    /\ ino_trie = InodeStore_new.ino_trie
    /\ cache = <<>>
    /\ be = BeInit
    /\ opens = [i \in Inos |-> 0]
    /\ max_alloc = 1
    /\ steps = 0
    /\ panicked = FALSE

\* store.insert(inode)
InsertInode ==
    \E inode \in FreshInodes(Store(inode_map, ino_trie)) :
        LET r == insert(Store(inode_map, ino_trie), inode)
        IN /\ ~panicked
           /\ inode_map' = r.inode_map
           /\ ino_trie' = r.ino_trie
           /\ panicked' = r.panic
           /\ UNCHANGED <<cache, be, opens, max_alloc, steps>>

StoreNext == InsertInode

StoreSpec == StoreInit /\ [][StoreNext]_vars

----------------------------------------------------------------------------
(* Properties.  A property about what a request does is stated over the    *)
(* handler applied to a reachable state, for every request the kernel can  *)
(* send in that state.                                                      *)

HasHandle(ino) == opens[ino] > 0

Offsets == 0..MaxLen
Sizes == 0..(MaxLen + 1)

\* the (name, ino) pairs of a directory reply
NameInoPairs(reply) == { <<e.name, e.ino>> : e \in reply.entries }

\* C1: an ino that enters the store in a step is greater than every ino
\* allocated before that step, so no ino number is handed out twice (also
\* after the inode that had it was removed).
C1_FreshInoNeverReused ==
    [][\A i \in DOMAIN inode_map' \ DOMAIN inode_map : i > max_alloc]_vars

\* C2: the ino map and the path trie agree in both directions: the path of
\* every stored inode resolves through the trie to that inode's number, and
\* every trie entry names a stored inode whose path is the entry's key.
C2_MapAndTrieAgree ==
    ~panicked =>
        /\ \A ino \in DOMAIN inode_map :
               /\ get_by_path(St, inode_map[ino].path) # None
               /\ get_by_path(St, inode_map[ino].path)[1].attr.ino = ino
        /\ \A key \in DOMAIN ino_trie :
               /\ ino_trie[key] \in DOMAIN inode_map
               /\ path_to_sequence(inode_map[ino_trie[key]].path) = key

\* C3: every non-root inode has a parent in the store, and the children of
\* that parent include the inode.
C3_ParentAndChildren ==
    ~panicked =>
        \A ino \in DOMAIN inode_map \ {1} :
            /\ parent(St, ino) # None
            /\ ~children(St, parent(St, ino)[1].attr.ino).panic
            /\ inode_map[ino] \in children(St, parent(St, ino)[1].attr.ino).val

\* C4: the root inode 1 is always in the store, is a directory with path "/",
\* and is its own parent.
C4_RootAlwaysExists ==
    /\ 1 \in DOMAIN inode_map
    /\ inode_map[1].attr.ino = 1
    /\ inode_map[1].attr.kind = "Directory"
    /\ inode_map[1].path = RootPath
    /\ get_by_path(St, RootPath) = Some(inode_map[1])
    /\ parent(St, 1) = Some(inode_map[1])

\* C4 witness: inodes were allocated and every one of them was removed again
\* by unlink or rmdir; the root is what is left.
C4_Witness ==
    /\ ~panicked
    /\ max_alloc > 1
    /\ DOMAIN inode_map = {1}
    /\ \A b \in BeInits : DOMAIN be # DOMAIN b

\* what C5 says the buffer is after write(offset, data) on a buffer `old`
WriteKeepsTail(old, offset, data, new) ==
    /\ Len(new) = Max(Len(old), offset + Len(data))
    /\ \A i \in 1..Len(new) :
           new[i] = IF i > offset /\ i <= offset + Len(data) THEN data[i - offset]
                    ELSE IF i <= Len(old) THEN old[i]
                    ELSE 0

\* C5: CacheEntry::write(offset, data) on an entry of length L leaves length
\* max(L, offset + len(data)): the written range holds data, a gap is zero
\* filled, every other byte is kept, and the entry never gets shorter.
C5_WriteNeverShortens ==
    \A ino \in DOMAIN cache, data \in Datas, offset \in Offsets :
        WriteKeepsTail(cache[ino].data, offset, data,
                       CacheEntry_write(cache[ino], offset, data).data)

\* write(ino, offset, data) answered with success, then read(ino, offset, len(data))
\* while the backend refuses every call
WriteThenRead(ino, offset, data) ==
    \A f1 \in BOOLEAN :
        LET w == write(St, ino, offset, data, f1)
        IN (~w.panic /\ w.reply.kind = "written") =>
               LET r == read(w, ino, offset, Len(data), TRUE)
               IN ~r.panic /\ r.reply = ReplyData(data) /\ r.calls = <<>>

\* C6 as claimed: on an open inode, a successful write(offset, data) followed at
\* once by read(offset, len(data)) replies data, also when data is empty.
C6_WriteThenReadAnyData ==
    \A ino \in Inos, data \in Datas, offset \in Offsets :
        HasHandle(ino) => WriteThenRead(ino, offset, data)

\* C6 amended: on an open inode, a successful write(offset, data) of a
\* non-empty data followed at once by read(offset, len(data)) replies data
\* byte for byte, without a backend call.
C6_WriteThenReadNonEmpty ==
    \A ino \in Inos, data \in Datas \ { <<>> }, offset \in Offsets :
        HasHandle(ino) => WriteThenRead(ino, offset, data)

\* C6 witness: an open file whose entry was written at offset 1 over a shorter
\* buffer (zero fill, then the payload), and reading the payload back gives it.
C6_Witness ==
    \E ino \in DOMAIN cache :
        /\ HasHandle(ino) /\ ~panicked
        /\ cache[ino].data = <<0, 3>> /\ ~cache[ino].sync
        /\ read(St, ino, 1, 1, FALSE).reply = ReplyData(<<3>>)

\* C7: on a warm entry of length len, read(offset, size) replies
\* data[offset .. min(offset + size, len)] when offset < len, replies ENOENT when
\* offset >= len, calls no backend and leaves the entry as it is.
C7_ReadWarmEntry ==
    \A ino \in DOMAIN cache, offset \in Offsets, size \in Sizes, fail \in BOOLEAN :
        (HasHandle(ino) /\ cache[ino].warm) =>
            LET r == read(St, ino, offset, size, fail)
                data == cache[ino].data
            IN /\ ~r.panic
               /\ r.cache = cache
               /\ r.calls = <<>>
               /\ offset < Len(data) =>
                      r.reply = ReplyData(SubSeq(data, offset + 1,
                                                 Min(offset + size, Len(data))))
               /\ offset >= Len(data) => r.reply = ReplyError("ENOENT")

\* C7 witness: an open file with a warm two-byte entry, where a read of two
\* bytes at offset 1 gets the one-byte tail and a read at offset 2 gets ENOENT.
C7_Witness ==
    \E ino \in DOMAIN cache :
        /\ HasHandle(ino) /\ ~panicked
        /\ cache[ino].warm /\ Len(cache[ino].data) = 2
        /\ read(St, ino, 1, 2, FALSE).reply = ReplyData(<<cache[ino].data[2]>>)
        /\ read(St, ino, 2, 1, FALSE).reply = ReplyError("ENOENT")

\* C8: a readdir(ino, 0) that succeeds, followed at once by a second
\* readdir(ino, 0), replies the same (name, ino) pairs, and the second one
\* calls no backend.
C8_ReaddirTwice ==
    ~panicked =>
        \A ino \in Inos :
            IsDir(ino) =>
                LET r1 == readdir(St, ino, 0, 0)
                IN (~r1.panic /\ r1.reply.kind = "ok") =>
                       LET r2 == readdir(r1, ino, 0, 0)
                       IN /\ ~r2.panic /\ r2.reply.kind = "ok"
                          /\ NameInoPairs(r2.reply) = NameInoPairs(r1.reply)
                          /\ r2.calls = <<>>

\* C9: after a readdir of directory P that succeeded, lookup(P, name) of a name
\* with no inode under P replies ENOENT and calls no backend.
C9_LookupAfterReaddir ==
    ~panicked =>
        \A par \in Inos, name \in Names, fail \in BOOLEAN :
            IsDir(par) =>
                LET r1 == readdir(St, par, 0, 0)
                IN (~r1.panic /\ r1.reply.kind = "ok" /\ child(r1, par, name) = None) =>
                       LET l == lookup(r1, par, name, fail)
                       IN l.reply = ReplyError("ENOENT") /\ l.calls = <<>>

\* C10: fsync on an inode whose entry has sync = TRUE calls no backend and
\* leaves the entry (data, warm, sync) as it is.
C10_FsyncWhenSync ==
    \A ino \in DOMAIN cache, fail \in BOOLEAN :
        cache[ino].sync =>
            LET f == fsync(St, ino, fail)
            IN /\ ~f.panic
               /\ f.calls = <<>>
               /\ f.be = be
               /\ f.cache = cache
               /\ f.reply = ReplyOk

\* C10 witness: an open file whose entry is in sync after a flush of written
\* data reached the backend.
C10_Witness ==
    \E ino \in DOMAIN cache :
        /\ HasHandle(ino) /\ ~panicked
        /\ cache[ino].sync /\ cache[ino].warm
        /\ 3 \in { cache[ino].data[i] : i \in 1..Len(cache[ino].data) }
        /\ fsync(St, ino, FALSE).calls = <<>>

\* the backend write calls among the calls of an outcome
Writes(o) == SelectSeq(o.calls, LAMBDA c : c.fn = "write")

\* C11 as claimed: two fsyncs in a row on the same inode issue at most one
\* backend write in total, whatever the entry and whether or not the backend
\* write fails.
C11_TwoFsyncsOneWrite ==
    \A ino \in DOMAIN cache, f1 \in BOOLEAN, f2 \in BOOLEAN :
        HasHandle(ino) =>
            LET f == fsync(St, ino, f1)
                g == fsync(f, ino, f2)
            IN Len(Writes(f)) + Len(Writes(g)) <= 1

\* C11 amended: of two fsyncs in a row on the same inode, each issues at most
\* one backend write, and the second issues one only when the first one's
\* write failed (the first then replied EIO and left entry and backend as
\* they were); so at most one backend write succeeds.
C11_TwoFsyncsOneWriteThatSucceeds ==
    \A ino \in DOMAIN cache, f1 \in BOOLEAN, f2 \in BOOLEAN :
        HasHandle(ino) =>
            LET f == fsync(St, ino, f1)
                g == fsync(f, ino, f2)
            IN /\ ~f.panic /\ ~g.panic
               /\ Len(f.calls) <= 1 /\ Len(g.calls) <= 1
               /\ f.reply = ReplyOk => g.calls = <<>> /\ g.be = f.be /\ g.reply = ReplyOk
               /\ f.reply # ReplyOk =>
                      /\ f.reply = ReplyError("EIO")
                      /\ Len(Writes(f)) = 1
                      /\ f.cache = cache /\ f.be = be

\* C11 witness: an open file with a dirty entry, where a first fsync whose
\* write fails is followed by a second fsync that writes again, and a first
\* fsync whose write succeeds is followed by one that writes nothing.
C11_Witness ==
    \E ino \in DOMAIN cache :
        /\ HasHandle(ino) /\ ~panicked
        /\ cache[ino].warm /\ ~cache[ino].sync /\ cache[ino].data # <<>>
        /\ Len(Writes(fsync(St, ino, TRUE))) = 1
        /\ Len(Writes(fsync(fsync(St, ino, TRUE), ino, FALSE))) = 1
        /\ Len(Writes(fsync(St, ino, FALSE))) = 1
        /\ fsync(fsync(St, ino, FALSE), ino, FALSE).calls = <<>>

\* the outcomes of one request on ino that is neither a read nor a write,
\* sent while the inode is open
BetweenOpenAndRelease(st, ino) ==
    { st } \cup { fsync(st, ino, fail) : fail \in BOOLEAN }
           \cup { getattr(st, ino) }
           \cup { setattr(st, ino, None, None, None, size) : size \in { None } \cup { Some(n) : n \in Sizes } }

\* C12: for an inode with no cache entry, open followed by release, with no
\* read or write in between, calls no backend and leaves no cache entry for
\* the inode.
C12_OpenReleaseLeavesNoEntry ==
    \A ino \in Inos, w1 \in BOOLEAN, w2 \in BOOLEAN, fail \in BOOLEAN :
        (IsFile(ino) /\ ino \notin DOMAIN cache) =>
            LET o == open(St, ino, w1)
            IN /\ ~o.panic /\ o.calls = <<>>
               /\ \A m \in BetweenOpenAndRelease(o, ino) :
                      LET r == release(m, ino, fail, w2)
                      IN /\ ~m.panic /\ m.calls = <<>>
                         /\ ~r.panic /\ r.calls = <<>>
                         /\ r.reply = ReplyOk
                         /\ ino \notin DOMAIN r.cache
                         /\ r.cache = cache /\ r.be = be

\* C12 witness: a file that was opened and released again: it is in the
\* store, it has no handle and no cache entry, and opening it makes an entry
\* that the release drops.
C12_Witness ==
    \E ino \in Inos :
        /\ ~panicked /\ steps >= 3
        /\ IsFile(ino) /\ ino \notin DOMAIN cache /\ ~HasHandle(ino)
        /\ be = BeInit
        /\ ino \in DOMAIN open(St, ino, FALSE).cache
        /\ ino \notin DOMAIN release(open(St, ino, FALSE), ino, FALSE, FALSE).cache

\* k releases in a row on an entry with handles = k: the first k - 1 call no
\* backend and keep the entry, the last one writes the entry's data once and,
\* when the write succeeds, drops the entry
RECURSIVE ReleasesFlushLast(_, _, _)
ReleasesFlushLast(st, ino, k) ==
    \A fail \in BOOLEAN, wrap \in BOOLEAN :
        LET r == release(st, ino, fail, wrap)
            path == st.inode_map[ino].path
            data == st.cache[ino].data
        IN /\ ~r.panic
           /\ r.reply = ReplyOk
           /\ IF k > 1
              THEN /\ r.calls = <<>>
                   /\ r.be = st.be
                   /\ ino \in DOMAIN r.cache
                   /\ r.cache[ino] = [st.cache[ino] EXCEPT !.handles = k - 1]
                   /\ ReleasesFlushLast(r, ino, k - 1)
              ELSE /\ r.calls = << Call("write", path, data) >>
                   /\ be_write(st.be, path, data, fail).res.ok =>
                          /\ ino \notin DOMAIN r.cache
                          /\ r.be = be_write(st.be, path, data, fail).be

Reads(o) == SelectSeq(o.calls, LAMBDA c : c.fn = "read")

\* mknod(par, name) and open of the new inode: the state in which the write of
\* C15 is sent, or <<>> when the sequence does not get that far
CreateOpen(par, name) ==
    LET m == mknod(St, par, name)
        ino == m.allocs[1]
        o == open(m, ino, FALSE)
    IN IF ~m.panic /\ ~o.panic /\ ino \notin DOMAIN cache
       THEN << [ino |-> ino, st |-> o, path |-> m.inode_map[ino].path] >>
       ELSE <<>>

\* from there write(0, data), a final release whose flush succeeds, then open:
\* the state in which the read of C15 is sent, or <<>>
WriteReleaseOpen(c, data) ==
    LET w == write(c.st, c.ino, 0, data, FALSE)
        r == release(w, c.ino, FALSE, FALSE)
        o2 == open(r, c.ino, FALSE)
    IN IF /\ ~w.panic /\ ~r.panic /\ ~o2.panic
          /\ w.reply.kind = "written"
          /\ Len(Writes(r)) = 1
          /\ be_write(w.be, c.path, w.cache[c.ino].data, FALSE).res.ok
       THEN << [ino |-> c.ino, released |-> r, st |-> o2, path |-> c.path] >>
       ELSE <<>>

\* the directories and names mknod can be sent for
CanMknod(par, name) ==
    ~panicked /\ IsDir(par) /\ child(St, par, name) = None

\* C15 as claimed: after mknod, open, write(0, B) and a final release whose
\* flush succeeds, the next open and read of the inode issue no backend read.
C15_ReopenReadsFromCache ==
    \A par \in Inos, name \in Names :
        CanMknod(par, name) =>
            LET co == CreateOpen(par, name)
            IN co # <<>> =>
                   \A data \in Datas :
                       LET c == WriteReleaseOpen(co[1], data)
                       IN c # <<>> =>
                              \A size \in Sizes, fail \in BOOLEAN :
                                  Reads(read(c[1].st, c[1].ino, 0, size, fail)) = <<>>

\* C15 amended: after mknod, open, write(0, B) and a final release whose flush
\* succeeds, the entry is gone; the next open makes a cold entry and the first
\* read issues exactly one backend read of the file, which (when it succeeds
\* and B is not empty) brings back B, so that read(0, len(B)) replies B.
C15_ReopenReadsBackendOnce ==
    \A par \in Inos, name \in Names :
        CanMknod(par, name) =>
            LET co == CreateOpen(par, name)
            IN co # <<>> =>
                   \A data \in Datas :
                       LET c == WriteReleaseOpen(co[1], data)
                       IN c # <<>> =>
                              /\ c[1].ino \notin DOMAIN c[1].released.cache
                              /\ ~c[1].st.cache[c[1].ino].warm
                              /\ \A size \in { Len(data), MaxLen + 1 }, fail \in BOOLEAN :
                                     LET rd == read(c[1].st, c[1].ino, 0, size, fail)
                                     IN /\ ~rd.panic
                                        /\ rd.calls = << Call("read", c[1].path, <<>>) >>
                                        /\ ~fail => rd.cache[c[1].ino].data = data
                                        /\ (~fail /\ data # <<>> /\ size = Len(data)) =>
                                               rd.reply = ReplyData(data)
                                        /\ fail => rd.reply.kind = "error"

\* C15 witness: a file that mknod created (the backend did not have it at
\* mount) was written and flushed by its final release: the backend has the
\* data, the cache has no entry, and a read after reopening asks the backend.
C15_Witness ==
    \E ino \in Inos :
        /\ ~panicked /\ IsFile(ino) /\ ~HasHandle(ino)
        /\ ino \notin DOMAIN cache
        /\ LET key == path_to_sequence(inode_map[ino].path)
           IN /\ key \notin DOMAIN BeInit
              /\ key \in DOMAIN be /\ be[key].data # <<>>
              /\ read(open(St, ino, FALSE), ino, 0, 1, FALSE).reply
                     = ReplyData(<<be[key].data[1]>>)
              /\ Len(Reads(read(open(St, ino, FALSE), ino, 0, 1, FALSE))) = 1

\* two reads in a row on an entry with a handle: a read calls the backend at
\* most once and only through backend read; a read of a warm entry calls
\* nothing and leaves the cache as it is; a backend read that succeeded
\* leaves the entry warm (also when it returned no bytes), so the read after
\* it calls nothing
ReadsWarmOnce ==
    \A ino \in DOMAIN cache, o1 \in Offsets, s1 \in Sizes, f1 \in BOOLEAN :
        cache[ino].handles >= 1 =>
            LET r1 == read(St, ino, o1, s1, f1)
                path == inode_map[ino].path
                succeeded == r1.calls # <<>> /\ be_read(be, path, f1).ok
            IN /\ ~r1.panic
               /\ r1.calls \in { <<>>, << Call("read", path, <<>>) >> }
               /\ r1.be = be
               /\ cache[ino].warm => r1.calls = <<>> /\ r1.cache = cache
               /\ succeeded => r1.cache[ino].warm
               /\ (r1.calls # <<>> /\ ~succeeded) => r1.cache = cache
               /\ succeeded =>
                      \A o2 \in Offsets, s2 \in Sizes, f2 \in BOOLEAN :
                          LET r2 == read(r1, ino, o2, s2, f2)
                          IN ~r2.panic /\ r2.calls = <<>> /\ r2.be = be

\* no request makes a warm entry cold: an entry that is warm and still in the
\* cache after a request is still warm
StaysWarm ==
    \A ino \in DOMAIN cache \cap DOMAIN cache' :
        cache[ino].warm => cache'[ino].warm

C17_MutatesOnlyEstablishedPaths ==
    ~panicked =>
        /\ \A par \in Inos, name \in Names, fail \in BOOLEAN :
               IsDir(par) =>
                   /\ unlink(St, par, name, fail).calls # <<>> => child(St, par, name) # None
                   /\ rmdir(St, par, name, fail).calls # <<>> => child(St, par, name) # None
        /\ \A ino \in DOMAIN cache, fail \in BOOLEAN, wrap \in BOOLEAN :
               \A o \in { fsync(St, ino, fail), release(St, ino, fail, wrap) } :
                   \A k \in 1..Len(o.calls) :
                       /\ o.calls[k].fn = "write"
                       /\ o.calls[k].path \in DOMAIN ino_trie

\* C18: a read, write, fsync or release on an inode that has no cache entry
\* (a file that is open or known to the store) replies an error, ENOENT or
\* for fsync EIO, and does not abort.
C18_NoEntryIsAnError ==
    ~panicked =>
        \A ino \in Inos \ DOMAIN cache :
            (HasHandle(ino) \/ IsFile(ino)) =>
                \A fail \in BOOLEAN, wrap \in BOOLEAN, offset \in Offsets, size \in Sizes,
                   data \in Datas :
                    /\ read(St, ino, offset, size, fail).reply = ReplyError("ENOENT")
                    /\ write(St, ino, offset, data, fail).reply = ReplyError("ENOENT")
                    /\ fsync(St, ino, fail).reply = ReplyError("EIO")
                    /\ release(St, ino, fail, wrap).reply.kind = "error"

\* C19: in every state, a cache entry that is warm and in sync holds exactly
\* the bytes the backend has for the path of its inode.
C19_SyncMeansBackendContent ==
    ~panicked =>
        \A ino \in DOMAIN cache :
            (cache[ino].warm /\ cache[ino].sync) =>
                /\ ino \in DOMAIN inode_map
                /\ LET key == path_to_sequence(inode_map[ino].path)
                   IN /\ key \in DOMAIN be
                      /\ be[key] = BeFile(cache[ino].data)

\* C20: lookup(parent, name) with no child in the store and a parent that is
\* not visited calls the backend lookup once; when the backend returns error
\* e the reply is exactly e and no inode is inserted.  With the child in the
\* store the reply is the child's attr and no backend is called.
C20_LookupPassesErrnoThrough ==
    ~panicked =>
        \A par \in Inos, name \in Names, fail \in BOOLEAN :
            IsDir(par) =>
                LET l == lookup(St, par, name, fail)
                    path == format_child(inode_map[par].path, name)
                    r == be_lookup(be, path, fail)
                IN /\ (child(St, par, name) = None /\ ~inode_map[par].visited) =>
                          /\ l.calls = << Call("lookup", path, <<>>) >>
                          /\ ~r.ok =>
                                 /\ l.reply = ReplyError(r.err)
                                 /\ l.inode_map = inode_map /\ l.ino_trie = ino_trie
                   /\ child(St, par, name) # None =>
                          /\ l.reply = ReplyEntry(child(St, par, name)[1].attr)
                          /\ l.calls = <<>>

\* C21: fsync on an entry that is warm and not in sync calls the backend
\* write once, with the path of the inode and the whole data of the entry.
\* When the write succeeds the entry is in sync and the reply is OK; on any
\* backend error the reply is EIO and data, warm and sync are as before, so
\* that the next fsync, or the final release, issues the write again.
C21_FsyncWritesDirtyEntry ==
    \A ino \in DOMAIN cache, fail \in BOOLEAN :
        (~panicked /\ cache[ino].warm /\ ~cache[ino].sync) =>
            LET f == fsync(St, ino, fail)
                path == inode_map[ino].path
                data == cache[ino].data
                thewrite == << Call("write", path, data) >>
                w == be_write(be, path, data, fail)
            IN /\ ~f.panic
               /\ f.calls = thewrite
               /\ w.res.ok =>
                      /\ f.reply = ReplyOk
                      /\ f.cache = [cache EXCEPT ![ino].sync = TRUE]
                      /\ f.be = w.be
                      /\ f.be[path_to_sequence(path)] = BeFile(data)
               /\ ~w.res.ok =>
                      /\ f.reply = ReplyError("EIO")
                      /\ f.cache = cache /\ f.be = be
                      /\ \A fail2 \in BOOLEAN, wrap \in BOOLEAN :
                             /\ fsync(f, ino, fail2).calls = thewrite
                             /\ cache[ino].handles = 1 =>
                                    release(f, ino, fail2, wrap).calls = thewrite

\* C21 witness: an open file with a dirty entry whose path is a directory on
\* the backend: the backend refuses the write by itself, fsync replies EIO and
\* the fsync after it writes again.
C21_Witness ==
    \E ino \in DOMAIN cache :
        /\ ~panicked /\ HasHandle(ino)
        /\ cache[ino].warm /\ ~cache[ino].sync
        /\ fsync(St, ino, FALSE).reply = ReplyError("EIO")
        /\ Len(Writes(fsync(fsync(St, ino, FALSE), ino, FALSE))) = 1

\* C22: on a cold entry, a write at offset 0 of more bytes than the stored
\* attr.size calls no backend read, and the final release after it calls the
\* backend write with exactly the bytes written.  Every other write on a cold
\* entry first calls the backend read once: when that read fails the reply is
\* the backend's error and the entry stays cold and unmodified, otherwise the
\* bytes are copied over what was read.
C22_ReplacingWriteSkipsRead ==
    \A ino \in DOMAIN cache :
        (~panicked /\ ~cache[ino].warm /\ cache[ino].handles >= 1) =>
            \A offset \in Offsets, data \in Datas, fail \in BOOLEAN :
                LET w == write(St, ino, offset, data, fail)
                    path == inode_map[ino].path
                    r == be_read(be, path, fail)
                IN /\ ~w.panic
                   /\ w.be = be
                   /\ IF offset = 0 /\ inode_map[ino].attr.size < Len(data)
                      THEN /\ w.calls = <<>>
                           /\ w.reply = ReplyWritten(Len(data))
                           /\ w.cache[ino].data = data
                           /\ cache[ino].handles = 1 =>
                                  \A f2 \in BOOLEAN, wrap \in BOOLEAN :
                                      release(w, ino, f2, wrap).calls
                                          = << Call("write", path, data) >>
                      ELSE /\ w.calls = << Call("read", path, <<>>) >>
                           /\ ~r.ok =>
                                  /\ w.reply = ReplyError(r.err)
                                  /\ w.cache = cache
                                  /\ w.inode_map = inode_map
                           /\ r.ok =>
                                  /\ w.reply = ReplyWritten(Len(data))
                                  /\ w.cache[ino].data
                                         = CacheEntry_write(
                                               [data |-> IF offset + Len(data) > inode_map[ino].attr.size
                                                         THEN resize(r.val, offset + Len(data), 0)
                                                         ELSE r.val],
                                               offset, data).data

\* C22 witness: an open file with a cold entry where a write at offset 0 is a
\* replacement (it succeeds although the backend read would fail) and a write
\* at offset 1 is not (it replies the error of the backend read).
C22_Witness ==
    \E ino \in DOMAIN cache :
        /\ ~panicked /\ HasHandle(ino)
        /\ ~cache[ino].warm /\ cache[ino].handles = 1
        /\ write(St, ino, 0, <<3, 4>>, TRUE).reply = ReplyWritten(2)
        /\ release(write(St, ino, 0, <<3, 4>>, TRUE), ino, FALSE, FALSE).calls
               = << Call("write", inode_map[ino].path, <<3, 4>>) >>
        /\ write(St, ino, 1, <<3>>, TRUE).reply = ReplyError("ENOSYS")

\* C23 as claimed: mknod calls no backend, inserts a regular-file inode of
\* size 0 and leaves its cache entry warm, not in sync, without a handle and
\* empty; the first fsync after it, or the first final release, issues exactly
\* one backend write of the contents, the empty contents included.
C23_MknodThenFlushCreatesFile ==
    \A par \in Inos, name \in Names :
        CanMknod(par, name) =>
            LET m == mknod(St, par, name)
                ino == m.allocs[1]
                path == format_child(inode_map[par].path, name)
                thewrite == << Call("write", path, <<>>) >>
                o == open(m, ino, FALSE)
            IN /\ ~m.panic
               /\ m.calls = <<>> /\ m.be = be
               /\ m.reply = ReplyEntry(FileAttr(ino, 0, "RegularFile", as_u16(CreateMode), MountUid, MountGid))
               /\ get_by_path(m, path) = Some(Inode(path, FileAttr(ino, 0, "RegularFile", as_u16(CreateMode), MountUid, MountGid)))
               /\ m.cache[ino] = [CacheEntry_new EXCEPT !.warm = TRUE]
               /\ \A fail \in BOOLEAN :
                      /\ fsync(m, ino, fail).calls = thewrite
                      /\ release(o, ino, fail, FALSE).calls = thewrite
                      /\ be_write(be, path, <<>>, fail).res.ok =>
                             /\ fsync(m, ino, fail).be[path_to_sequence(path)] = BeFile(<<>>)
                             /\ release(o, ino, fail, FALSE).be[path_to_sequence(path)]
                                    = BeFile(<<>>)

\* what C24 says of the outcome o of unlink or rmdir(par, name), r being the
\* result of the backend call
RemovesChildOnly(o, par, name, r) ==
    LET found == child(St, par, name)
    IN /\ ~o.panic
       /\ r.res.ok =>
              /\ o.reply = ReplyOk
              /\ o.be = r.be
              /\ found = None =>
                     /\ o.inode_map = inode_map /\ o.ino_trie = ino_trie
                     /\ o.cache = cache
              /\ found # None =>
                     LET ino == found[1].attr.ino
                     IN /\ ino \notin DOMAIN o.inode_map
                        /\ ino \notin DOMAIN o.cache
                        /\ child(o, par, name) = None
                        /\ o.inode_map = Del(inode_map, ino)
                        /\ o.cache = Del(cache, ino)
                        /\ o.ino_trie = Del(ino_trie, path_to_sequence(found[1].path))
       /\ ~r.res.ok =>
              /\ o.reply = ReplyError("EIO")
              /\ o.inode_map = inode_map /\ o.ino_trie = ino_trie
              /\ o.cache = cache /\ o.be = be

\* C24: unlink(parent, name) and rmdir(parent, name): when the backend call
\* succeeds, the child's inode and its cache entry are removed and every other
\* inode and cache entry is as before; when it fails, the reply is EIO and the
\* store and the cache are as before.
C24_RemoveOnlyTheChild ==
    ~panicked =>
        \A par \in Inos, name \in Names, fail \in BOOLEAN :
            IsDir(par) =>
                LET path == format_child(inode_map[par].path, name)
                IN /\ RemovesChildOnly(unlink(St, par, name, fail), par, name,
                                       be_unlink(be, path, fail))
                   /\ RemovesChildOnly(rmdir(St, par, name, fail), par, name,
                                       be_rmdir(be, path, fail))

\* C24 witness: an open file that the store holds as a child of its parent,
\* next to another inode: unlink removes the file's inode and cache entry when
\* the backend succeeds and replies EIO when it fails.
C24_Witness ==
    \E par \in Inos, name \in Names :
        /\ ~panicked /\ IsDir(par)
        /\ child(St, par, name) # None
        /\ child(St, par, name)[1].attr.ino \in DOMAIN cache
        /\ Cardinality(DOMAIN inode_map) >= 3
        /\ unlink(St, par, name, FALSE).reply = ReplyOk
        /\ unlink(St, par, name, TRUE).reply = ReplyError("EIO")

\* C25: when the backend readdir iterator yields an error after some entries,
\* readdir replies that error, the store holds no inode for the entries that
\* came before the error (the inode map and the trie are the ones before the
\* call), and the directory is still not visited.
C25_FailedReaddirLeavesNoInode ==
    \A ino \in DOMAIN inode_map : \A failAt \in 2..(Cardinality(Names) + 1) :
        LET items == be_readdir(be, inode_map[ino].path, failAt)
            o == readdir(St, ino, 0, failAt)
        IN (/\ ~inode_map[ino].visited
            /\ Len(items) >= 2
            /\ ~items[Len(items)].ok
            /\ ~o.panic)
           => /\ o.reply = ReplyError(items[Len(items)].err)
              /\ o.inode_map = inode_map
              /\ o.ino_trie = ino_trie
              /\ ~o.inode_map[ino].visited

\* C26: the handle count of a cache entry never goes below 0, and a release
\* that is preceded by its own open on the same inode (the inode has an open
\* that was not released yet) never finds a handle count of 0 to decrement,
\* also when the name was unlinked and created again in between.
C26_ReleaseNeverDecrementsZero ==
    \A ino \in DOMAIN cache :
        /\ cache[ino].handles >= 0
        /\ HasHandle(ino) => cache[ino].handles > 0

\* C27: after every dispatcher write that replies success, the inode's stored
\* attr.size is the length of its cache entry's data and the reply is
\* len(data), whatever attr.size was before the write (a setattr may have
\* changed it).
C27_WriteSetsSizeToEntryLength ==
    \A ino \in DOMAIN inode_map \cap DOMAIN cache : \A offset \in Offsets : \A data \in Datas :
        \A fail \in IF cache[ino].warm THEN { FALSE } ELSE BOOLEAN :
            LET o == write(St, ino, offset, data, fail)
            IN (~o.panic /\ o.reply.kind = "written")
               => /\ ino \in DOMAIN o.cache
                  /\ ino \in DOMAIN o.inode_map
                  /\ o.inode_map[ino].attr.size = Len(o.cache[ino].data)
                  /\ o.reply = ReplyWritten(Len(data))

\* a setattr left attr.size different from the length of the cached data, and
\* a write to that inode succeeds
C27_Witness ==
    \E ino \in DOMAIN cache :
        /\ ~panicked /\ HasHandle(ino) /\ ino \in DOMAIN inode_map
        /\ cache[ino].warm
        /\ inode_map[ino].attr.size # Len(cache[ino].data)
        /\ write(St, ino, 1, <<3>>, FALSE).reply = ReplyWritten(1)
        /\ write(St, ino, 1, <<3>>, FALSE).inode_map[ino].attr.size = 2

\* the stored attr `a` with the fields that are present in the request replaced
WithPresentFields(a, mode, uid, gid, size) ==
    [a EXCEPT !.perm = IF mode # None THEN as_u16(mode[1]) ELSE @,
              !.uid = IF uid # None THEN uid[1] ELSE @,
              !.gid = IF gid # None THEN gid[1] ELSE @,
              !.size = IF size # None THEN size[1] ELSE @]

\* C28: setattr on an existing inode replaces every field of the stored attr
\* that is present in the request (mode, uid, gid, size), keeps the absent
\* ones and every other inode, replies the updated attr, issues no backend
\* call and leaves the page cache alone; on a missing inode it replies ENOENT
\* and changes nothing.
C28_SetattrUpdatesPresentFields ==
    \A ino \in Inos : \A mode \in Modes : \A uid \in AnyUids : \A gid \in AnyGids :
        \A size \in { None } \cup { Some(n) : n \in Sizes } :
            LET o == setattr(St, ino, mode, uid, gid, size)
            IN /\ ~o.panic
               /\ o.calls = <<>> /\ o.be = be /\ o.cache = cache
               /\ o.ino_trie = ino_trie
               /\ ino \in DOMAIN inode_map =>
                      LET updated == WithPresentFields(inode_map[ino].attr, mode, uid, gid, size)
                      IN /\ o.reply = ReplyAttr(updated)
                         /\ o.inode_map = [inode_map EXCEPT ![ino].attr = updated]
               /\ ino \notin DOMAIN inode_map =>
                      /\ o.reply = ReplyError("ENOENT")
                      /\ o.inode_map = inode_map

\* the results of get, get_by_path, child, parent and children are the same
\* in stores s and t
SameResults(s, t) ==
    /\ \A ino \in {1} \cup StoreInos :
           /\ get(s, ino) = get(t, ino)
           /\ parent(s, ino) = parent(t, ino)
           /\ children(s, ino) = children(t, ino)
           /\ \A name \in Names : child(s, ino, name) = child(t, ino, name)
    /\ \A path \in {RootPath} \cup StorePaths : get_by_path(s, path) = get_by_path(t, path)

\* the store after inserting the inodes of `inodes` into s ancestors first:
\* [panic, s]
RECURSIVE InsertAncestorsFirst(_, _)
InsertAncestorsFirst(s, inodes) ==
    IF inodes = {} THEN [panic |-> FALSE, s |-> s]
    ELSE LET first == CHOOSE i \in inodes :
                          \A j \in inodes : Len(path_to_sequence(i.path))
                                             <= Len(path_to_sequence(j.path))
             r == insert(s, first)
         IN IF r.panic THEN [panic |-> TRUE, s |-> Store(r.inode_map, r.ino_trie)]
            ELSE InsertAncestorsFirst(Store(r.inode_map, r.ino_trie), inodes \ {first})

\* C29: a store built by inserting inodes with distinct inos and distinct
\* paths in any order answers get, get_by_path, child, parent and children
\* as the store built by inserting the same inodes ancestors first; each
\* insert adds its inode under its ino and its path and changes no other
\* answer of get and get_by_path.
C29_InsertOrderIndependent ==
    LET s == Store(inode_map, ino_trie)
        inserted == { inode_map[i] : i \in DOMAIN inode_map \ {1} }
        ref == InsertAncestorsFirst(Store(InodeStore_new.inode_map, InodeStore_new.ino_trie),
                                    inserted)
    IN /\ ~panicked /\ ~ref.panic
       /\ SameResults(s, ref.s)
       /\ \A inode \in FreshInodes(s) :
              LET r == insert(s, inode)
              IN /\ ~r.panic
                 /\ get(r, inode.attr.ino) = Some(inode)
                 /\ get_by_path(r, inode.path) = Some(inode)
                 /\ \A ino \in ({1} \cup StoreInos) \ {inode.attr.ino} :
                        get(r, ino) = get(s, ino)
                 /\ \A path \in ({RootPath} \cup StorePaths) \ {inode.path} :
                        get_by_path(r, path) = get_by_path(s, path)

\* /a/b/a (ino 4), /a/b (ino 3) and /a (ino 2) are in the store, which is
\* also reached by inserting them in this order, and the store answers as if
\* they had been inserted ancestors first
C29_Witness ==
    LET s == Store(inode_map, ino_trie)
        a == format_child(<<>>, <<"a">>)
        ab == format_child(a, <<"b">>)
        aba == format_child(ab, <<"a">>)
    IN /\ DOMAIN inode_map = 1..4
       /\ get_by_path(s, aba) # None /\ get_by_path(s, aba)[1].attr.ino = 4
       /\ parent(s, 4) # None /\ parent(s, 4)[1].attr.ino = 3
       /\ { i.attr.ino : i \in children(s, 2).val } = {3}
       /\ get(s, 2) # None /\ get(s, 2)[1].path = a


====
